---- MODULE Spec2Model ----
(***************************************************************************)
(* Model of src/updatedcode.js.js: the PDF upload middleware               *)
(* (handleFileUpload), the deletion helper (deleteReportFile) and the      *)
(* cumulative-size ledger (getCumulativeSize / updateCumulativeSize) kept  *)
(* in ./cumulativeSize.json.                                               *)
(*                                                                         *)
(* Every async function is cut at its awaits: between two awaits a         *)
(* function runs atomically (the event loop), and other calls may run in   *)
(* between.  Strings are sequences of one-character strings, so that       *)
(* JSON.stringify, JSON.parse, path.extname, toLowerCase and the regular   *)
(* expression /pdf/ are computed, not assumed.                             *)
(***************************************************************************)
EXTENDS Integers, Sequences, FiniteSets, TLC

\* ------------------------------------------------------------------ bounds
NumCalls == 2       \* calls (requests) that may be in flight at once
MaxOps == 2         \* operations started in one behaviour
MaxFaults == 1      \* filesystem calls that fail for an outside reason
NumPaths == 3       \* files the upload directory ever holds
MaxDelta == 2       \* largest |delta| given to updateCumulativeSize directly

Calls == 1..NumCalls
Paths == 1..NumPaths

\* ------------------------------------------------------------- characters
Max(a, b) == IF a >= b THEN a ELSE b

Digits == <<"0", "1", "2", "3", "4", "5", "6", "7", "8", "9">>

RECURSIVE NatToString(_)
NatToString(n) ==
    IF n < 10 THEN <<Digits[n + 1]>>
    ELSE NatToString(n \div 10) \o <<Digits[(n % 10) + 1]>>

\* Number.prototype.toString for an integer, as JSON.stringify prints it.
NumberToString(n) ==
    IF n < 0 THEN <<"-">> \o NatToString(-n) ELSE NatToString(n)

IsDigit(c) == \E i \in 1..10 : Digits[i] = c

DigitValue(c) == (CHOOSE i \in 1..10 : Digits[i] = c) - 1

RECURSIVE DigitsToNat(_)
DigitsToNat(s) ==
    IF Len(s) = 0 THEN 0
    ELSE 10 * DigitsToNat(SubSeq(s, 1, Len(s) - 1)) + DigitValue(s[Len(s)])

\* A JSON integer literal: an optional minus sign, then digits with no
\* leading zero.
IsJSONInteger(s) ==
    LET d == IF Len(s) > 0 /\ s[1] = "-" THEN Tail(s) ELSE s
    IN  /\ Len(d) > 0
        /\ \A i \in 1..Len(d) : IsDigit(d[i])
        /\ (Len(d) > 1 => d[1] # "0")

JSONIntegerValue(s) ==
    IF s[1] = "-" THEN 0 - DigitsToNat(Tail(s)) ELSE DigitsToNat(s)

\* The text {"totalSize": up to the value.
TotalSizeKey ==
    <<"{", "\"", "t", "o", "t", "a", "l", "S", "i", "z", "e", "\"", ":">>

\* JSON.stringify({ totalSize: newSize }) (line 23).
JSONStringify(newSize) == TotalSizeKey \o NumberToString(newSize) \o <<"}">>

\* JSON.parse(data) (line 12) on the texts the ledger file can hold: the
\* object {"totalSize":<integer>}, the empty object {}, and text that is
\* not JSON (empty, or the overlap of two writes), on which it throws.
JSONParse(data) ==
    LET n == Len(data)
        k == Len(TotalSizeKey)
    IN  IF /\ n > k + 1
           /\ SubSeq(data, 1, k) = TotalSizeKey
           /\ data[n] = "}"
           /\ IsJSONInteger(SubSeq(data, k + 1, n - 1))
        THEN [throws |-> FALSE, hasTotalSize |-> TRUE,
              totalSize |-> JSONIntegerValue(SubSeq(data, k + 1, n - 1))]
        ELSE IF data = <<"{", "}">>
        THEN [throws |-> FALSE, hasTotalSize |-> FALSE, totalSize |-> 0]
        ELSE [throws |-> TRUE, hasTotalSize |-> FALSE, totalSize |-> 0]

\* ------------------------------------------------------------ ledger file
\* The file ./cumulativeSize.json: absent, or present with its text.
NoFile == [exists |-> FALSE, data |-> <<>>]

FileWith(text) == [exists |-> TRUE, data |-> text]

\* getCumulativeSize whose catch returns -1 for "no total" in place of 0.
GetCumulativeSizeOfSentinel(file, readFails) ==
    IF readFails \/ ~file.exists THEN 0 - 1
    ELSE LET parsed == JSONParse(file.data)
         IN  IF parsed.throws THEN 0 - 1
             ELSE IF ~parsed.hasTotalSize \/ parsed.totalSize = 0 THEN 0
             ELSE parsed.totalSize

\* getCumulativeSize (lines 9-17) on the file as one readFile sees it;
\* readFails is a readFile that rejects for an outside reason.
GetCumulativeSizeOf(file, readFails) ==
    IF readFails \/ ~file.exists THEN 0
    ELSE LET parsed == JSONParse(file.data)
         IN  IF parsed.throws THEN 0
             ELSE IF ~parsed.hasTotalSize \/ parsed.totalSize = 0 THEN 0
             ELSE parsed.totalSize

\* Line 22 without the clamp.
NewSizeUnclamped(currentSize, delta) == currentSize + delta

\* Line 22 with the sign of delta slipped.
NewSizeSubtracting(currentSize, delta) == Max(0, currentSize - delta)

\* Line 22: Math.max(0, currentSize + delta).
NewSize(currentSize, delta) == Max(0, currentSize + delta)

\* An open that creates the file and keeps what it holds (flag 'r+' or
\* 'a' in place of 'w').
OpenForWriteKeeping(file) == FileWith(file.data)

\* fs.writeFile opens the file with flag 'w', which creates or truncates it.
OpenForWrite(file) == FileWith(<<>>)

\* fs.writeFile then writes the text at offset 0 of the open file; bytes
\* another writer left beyond the text stay.
WriteAtStart(file, text) ==
    FileWith(text \o SubSeq(file.data, Len(text) + 1, Len(file.data)))

\* ------------------------------------------------------------ file filter
UpperLetters ==
    <<"A", "B", "C", "D", "E", "F", "G", "H", "I", "J", "K", "L", "M",
      "N", "O", "P", "Q", "R", "S", "T", "U", "V", "W", "X", "Y", "Z">>

LowerLetters ==
    <<"a", "b", "c", "d", "e", "f", "g", "h", "i", "j", "k", "l", "m",
      "n", "o", "p", "q", "r", "s", "t", "u", "v", "w", "x", "y", "z">>

\* String.prototype.toLowerCase, one character at a time.
LowerChar(ch) ==
    IF \E i \in 1..26 : UpperLetters[i] = ch
    THEN LowerLetters[CHOOSE i \in 1..26 : UpperLetters[i] = ch]
    ELSE ch

ToLowerCase(s) == [i \in 1..Len(s) |-> LowerChar(s[i])]

\* Index of the last "." of s, 0 when there is none.
LastDot(s) ==
    IF \E i \in 1..Len(s) : s[i] = "."
    THEN CHOOSE i \in 1..Len(s) :
            s[i] = "." /\ \A j \in (i + 1)..Len(s) : s[j] # "."
    ELSE 0

\* path.extname(name) for a name without directory separators: from the
\* last "." to the end; empty when there is no ".", when the only "." is
\* the first character, and for "..".
Extname(name) ==
    LET d == LastDot(name)
    IN  IF d <= 1 \/ name = <<".", ".">> THEN <<>>
        ELSE SubSeq(name, d, Len(name))

\* /pdf/.test(s): s holds p, d, f in a row, in lower case.
TestPdf(s) ==
    \E i \in 1..(Len(s) - 2) : s[i] = "p" /\ s[i + 1] = "d" /\ s[i + 2] = "f"

\* fileFilter (lines 39-48): TRUE for cb(null, true), FALSE for
\* cb(new Error('Invalid file type. Only PDF files are allowed.')).
FileFilter(file) ==
    LET mimetype == TestPdf(file.mimetype)
        extname == TestPdf(ToLowerCase(Extname(file.originalname)))
    IN  mimetype /\ extname

\* Line 54: limits.fileSize.
FileSizeLimit == 20 * 1024 * 1024

\* ------------------------------------------------------------------ inputs
ApplicationPdf ==
    <<"a", "p", "p", "l", "i", "c", "a", "t", "i", "o", "n", "/", "p", "d", "f">>

ApplicationPdfUpper ==
    <<"A", "P", "P", "L", "I", "C", "A", "T", "I", "O", "N", "/", "P", "D", "F">>

ApplicationXPdfIsh ==
    <<"a", "p", "p", "l", "i", "c", "a", "t", "i", "o", "n", "/", "x", "-",
      "p", "d", "f", "-", "i", "s", "h">>

TextPlain == <<"t", "e", "x", "t", "/", "p", "l", "a", "i", "n">>

Mimetypes == {ApplicationPdf, ApplicationPdfUpper, ApplicationXPdfIsh, TextPlain}

PdfName == <<"a", ".", "p", "d", "f">>

TxtName == <<"a", " ", "b", ".", "t", "x", "t">>

OriginalNames ==
    { PdfName,
      <<"a", ".", "P", "D", "F">>,
      TxtName,
      <<".", "p", "d", "f">>,
      <<"p", "d", "f">>,
      <<"a", ".", "p", "d", "f", ".", "t", "x", "t">>,
      <<"a", ".", "x", "p", "d", "f", "x">> }

FileSizes == {0, 5, FileSizeLimit, FileSizeLimit + 1}

NoUpload == [mimetype |-> <<>>, originalname |-> <<>>, size |-> 0]

\* What a multipart request carries besides one file on report_pdf: no
\* file, a file on another field, or more parts than the parser allows.
OtherRequests ==
    [kind : {"nofile", "unexpected_field", "too_many_parts"}, file : {NoUpload}]

\* Every MIME type with every name in every size.
AllRequests ==
    [kind : {"file"},
     file : [mimetype : Mimetypes, originalname : OriginalNames,
             size : FileSizes]]
        \cup OtherRequests

\* The requests of concurrent calls: a.pdf declared application/pdf in
\* every size, a.pdf declared text/plain, and the requests without a file
\* on report_pdf.
Requests ==
    [kind : {"file"},
     file : [mimetype : {ApplicationPdf}, originalname : {PdfName},
             size : FileSizes]
              \cup [mimetype : {TextPlain}, originalname : {PdfName},
                    size : {5}]]
        \cup OtherRequests

NoRequest == [kind |-> "none", file |-> NoUpload]

Deltas == (0 - MaxDelta)..MaxDelta

InitialTotals == {7}

\* What ./cumulativeSize.json may hold when the process starts: nothing,
\* a total, an object without totalSize, an empty text (a write cut short
\* after the open) or the overlap of two writes.
LedgerFiles ==
    {NoFile, FileWith(<<>>), FileWith(<<"{", "}">>),
     FileWith(JSONStringify(9) \o <<"}">>)}
        \cup {FileWith(JSONStringify(t)) : t \in {0, 7, 12, 0 - 3}}

\* The deltas of updateCumulativeSize calls made one at a time.
LedgerDeltas == {500, 0 - 800, 0 - 1000, 0, 3}

\* ------------------------------------------------------------------ errors
InvalidTypeMessage == "Invalid file type. Only PDF files are allowed."

NoError == [present |-> FALSE, multer |-> FALSE, code |-> "", message |-> ""]

\* new multer.MulterError(code), with the library's message for the code.
MulterError(code, message) ==
    [present |-> TRUE, multer |-> TRUE, code |-> code, message |-> message]

\* new Error(message).
PlainError(message) ==
    [present |-> TRUE, multer |-> FALSE, code |-> "", message |-> message]

NoStoredFile == [present |-> FALSE, size |-> 0, path |-> 0]

StoredFile(size, path) == [present |-> TRUE, size |-> size, path |-> path]

\* res.status(status).json({status: false, status_code, message}).
Response(status, statusCode, message) ==
    [status |-> status,
     body |-> [status |-> FALSE, status_code |-> statusCode, message |-> message]]

\* The error branches with every error answered by the generic 500.
ErrorResponseAll500(e) ==
    Response(500, 500, "An error occurred during file upload.")

\* Lines 76-102: the response for a parser error e.
ErrorResponse(e) ==
    IF e.multer
    THEN IF e.code = "LIMIT_UNEXPECTED_FILE"
         THEN Response(400, 400, "Only a single file can be uploaded for report_pdf.")
         ELSE Response(400, 400, e.message)
    ELSE IF e.message = InvalidTypeMessage
         THEN Response(400, 400, "Invalid file type. Only PDF files are accepted.")
         ELSE Response(500, 500, "An error occurred during file upload.")

\* ------------------------------------------------------------------- state
VARIABLES
    cumulativeSizeFile, \* the text of ./cumulativeSize.json, or NoFile
    disk,               \* upload directory: path -> [exists, size]
    names,              \* file names generated so far
    pc,                 \* each call's position
    op,                 \* "upload", "delete", "update" or "none"
    req,                \* upload: the multipart request
    err,                \* upload: the error singleUpload gave the callback
    reqFile,            \* upload: req.file
    filePath,           \* delete: the argument
    stats,              \* delete: stats.size
    delta,              \* updateCumulativeSize: the argument
    currentSize,        \* updateCumulativeSize: line 21
    newSize,            \* updateCumulativeSize: line 22
    res,                \* upload: the responses sent, in order
    nextCalls,          \* upload: how often next() was invoked
    outcome,            \* how the call ended: [kind, value]
    ops,                \* operations started so far
    faults,             \* filesystem calls that failed for an outside reason
    \* history, read by the properties only
    totalBefore,        \* the ledger total when the call began
    totalAfter,         \* the ledger total when the call ended
    presentAfter,       \* delete: the file was still there when the call ended
    failed,             \* the steps of the call that failed
    overlapped,         \* another ledger update ran while the call did
    wrote,              \* the call opened the ledger file for writing
    removed             \* delete: the call's unlink removed the file

vars ==
    <<cumulativeSizeFile, disk, names, pc, op, req, err, reqFile, filePath, stats,
      delta, currentSize, newSize, res, nextCalls, outcome, ops, faults,
      totalBefore, totalAfter, presentAfter, failed, overlapped, wrote,
      removed>>

NoEntry == [exists |-> FALSE, size |-> 0]

EmptyDisk == [p \in Paths |-> NoEntry]

Pending == [kind |-> "pending", flag |-> FALSE, value |-> 0]

\* A call whose promise settled: fulfilled with nothing, with a boolean or
\* with a number, or rejected.
Returned == [kind |-> "returned", flag |-> FALSE, value |-> 0]

ReturnedFlag(b) == [kind |-> "returned", flag |-> b, value |-> 0]

ReturnedNumber(n) == [kind |-> "returned", flag |-> FALSE, value |-> n]

Rejected == [kind |-> "rejected", flag |-> FALSE, value |-> 0]

\* The positions inside updateCumulativeSize.
UpdatePcs == {"getCumulativeSize", "writeFileOpen", "writeFileData"}

\* The total a getCumulativeSize of this moment returns.
LedgerTotal == GetCumulativeSizeOf(cumulativeSizeFile, FALSE)

\* No call has begun.
InitCalls ==
    /\ pc = [c \in Calls |-> "idle"]
    /\ op = [c \in Calls |-> "none"]
    /\ req = [c \in Calls |-> NoRequest]
    /\ err = [c \in Calls |-> NoError]
    /\ reqFile = [c \in Calls |-> NoStoredFile]
    /\ filePath = [c \in Calls |-> 0]
    /\ stats = [c \in Calls |-> 0]
    /\ delta = [c \in Calls |-> 0]
    /\ currentSize = [c \in Calls |-> 0]
    /\ newSize = [c \in Calls |-> 0]
    /\ res = [c \in Calls |-> <<>>]
    /\ nextCalls = [c \in Calls |-> 0]
    /\ outcome = [c \in Calls |-> Pending]
    /\ ops = 0
    /\ faults = 0
    /\ totalBefore = [c \in Calls |-> 0]
    /\ totalAfter = [c \in Calls |-> 0]
    /\ presentAfter = [c \in Calls |-> FALSE]
    /\ failed = [c \in Calls |-> {}]
    /\ overlapped = [c \in Calls |-> FALSE]
    /\ wrote = [c \in Calls |-> FALSE]
    /\ removed = [c \in Calls |-> FALSE]

Init ==
    /\ cumulativeSizeFile \in
           {NoFile} \cup {FileWith(JSONStringify(t)) : t \in InitialTotals}
    /\ \/ disk = EmptyDisk /\ names = 0
       \/ /\ disk = [EmptyDisk EXCEPT ![1] = [exists |-> TRUE, size |-> 5]]
          /\ names = 1
    /\ InitCalls

\* ----------------------------------------------------------------- history
\* Kept by every step: a call is overlapped once another call is inside
\* updateCumulativeSize while it runs; what its unlink removed is noted;
\* the ledger total and the file's presence are recorded at the step that
\* ends it.
History ==
    /\ overlapped' =
         [c \in Calls |->
            IF pc'[c] = "idle" THEN FALSE
            ELSE IF pc'[c] = "done" /\ pc[c] = "done" THEN overlapped[c]
            ELSE (pc[c] \notin {"idle", "done"} /\ overlapped[c])
                   \/ \E d \in Calls \ {c} :
                         pc[d] \in UpdatePcs \/ pc'[d] \in UpdatePcs]
    /\ totalAfter' =
         [c \in Calls |->
            IF pc'[c] = "done" /\ pc[c] # "done"
            THEN GetCumulativeSizeOf(cumulativeSizeFile', FALSE)
            ELSE IF pc'[c] = "done" THEN totalAfter[c]
            ELSE 0]
    /\ removed' =
         [c \in Calls |->
            IF pc[c] = "unlink" /\ pc'[c] # "unlink"
            THEN disk[filePath[c]].exists /\ ~disk'[filePath[c]].exists
            ELSE IF pc[c] \in {"idle", "done"} /\ pc'[c] # "done" THEN FALSE
            ELSE removed[c]]
    /\ presentAfter' =
         [c \in Calls |->
            IF pc'[c] = "done" /\ pc[c] # "done" /\ op'[c] = "delete"
            THEN disk'[filePath'[c]].exists
            ELSE IF pc'[c] = "done" THEN presentAfter[c]
            ELSE FALSE]

\* A call begins in a free slot, or in the slot of a call that has
\* settled: the locals start afresh.
Begin(c, kind, r, path, d, start) ==
    /\ pc[c] \in {"idle", "done"}
    /\ ops < MaxOps
    /\ ops' = ops + 1
    /\ pc' = [pc EXCEPT ![c] = start]
    /\ op' = [op EXCEPT ![c] = kind]
    /\ req' = [req EXCEPT ![c] = r]
    /\ filePath' = [filePath EXCEPT ![c] = path]
    /\ delta' = [delta EXCEPT ![c] = d]
    /\ err' = [err EXCEPT ![c] = NoError]
    /\ reqFile' = [reqFile EXCEPT ![c] = NoStoredFile]
    /\ stats' = [stats EXCEPT ![c] = 0]
    /\ currentSize' = [currentSize EXCEPT ![c] = 0]
    /\ newSize' = [newSize EXCEPT ![c] = 0]
    /\ res' = [res EXCEPT ![c] = <<>>]
    /\ nextCalls' = [nextCalls EXCEPT ![c] = 0]
    /\ outcome' = [outcome EXCEPT ![c] = Pending]
    /\ totalBefore' = [totalBefore EXCEPT ![c] = LedgerTotal]
    /\ failed' = [failed EXCEPT ![c] = {}]
    /\ wrote' = [wrote EXCEPT ![c] = FALSE]
    /\ UNCHANGED <<cumulativeSizeFile, disk, names, faults>>

\* A filesystem call may fail for an outside reason (permissions, a full
\* disk, too many open files) while the budget lasts.
MayFail == faults < MaxFaults

Fail(c, step) ==
    /\ faults' = faults + 1
    /\ failed' = [failed EXCEPT ![c] = @ \cup {step}]

\* The call ends with outcome o.
Settle(c, o) ==
    /\ pc' = [pc EXCEPT ![c] = "done"]
    /\ outcome' = [outcome EXCEPT ![c] = o]

\* ------------------------------------------------------------------ upload
\* Lines 72-75: handleFileUpload builds singleUpload and hands it the
\* request and the callback.
HandleFileUpload(c, r) ==
    /\ names + Cardinality({d \in Calls : pc[d] = "singleUpload"}) < NumPaths
    /\ Begin(c, "upload", r, 0, 0, "singleUpload")
    /\ History

\* The parser with no limit on the file size.
ParserErrorNoSizeLimit(r) ==
    CASE r.kind = "unexpected_field" ->
            MulterError("LIMIT_UNEXPECTED_FILE", "Unexpected field")
      [] r.kind = "too_many_parts" ->
            MulterError("LIMIT_PART_COUNT", "Too many parts")
      [] r.kind = "file" /\ ~FileFilter(r.file) -> PlainError(InvalidTypeMessage)
      [] OTHER -> NoError

\* upload.single('report_pdf') (lines 51-55, 73): the error the parser
\* gives the callback before anything is stored: a file on another field,
\* a parser limit, the filter's rejection, a file over limits.fileSize.
ParserError(r) ==
    CASE r.kind = "unexpected_field" ->
            MulterError("LIMIT_UNEXPECTED_FILE", "Unexpected field")
      [] r.kind = "too_many_parts" ->
            MulterError("LIMIT_PART_COUNT", "Too many parts")
      [] r.kind = "file" /\ ~FileFilter(r.file) -> PlainError(InvalidTypeMessage)
      [] r.kind = "file" /\ r.file.size > FileSizeLimit ->
            MulterError("LIMIT_FILE_SIZE", "File too large")
      [] OTHER -> NoError

\* singleUpload(req, res, callback) (lines 28-36, 51-55, 75): the parser
\* runs, stores an accepted file under a generated name and calls the
\* callback with its error, if any.  The name of line 33-34 (the time, a
\* random number below 1E9, the original name) is taken to be one no file
\* was given before: the next path.
SingleUpload(c) ==
    /\ pc[c] = "singleUpload"
    /\ pc' = [pc EXCEPT ![c] = "callback"]
    /\ \/ /\ ParserError(req[c]).present
          /\ err' = [err EXCEPT ![c] = ParserError(req[c])]
          /\ UNCHANGED <<disk, names, reqFile, faults, failed>>
       \/ /\ ~ParserError(req[c]).present
          /\ req[c].kind = "nofile"
          /\ UNCHANGED <<disk, names, reqFile, err, faults, failed>>
       \/ /\ ~ParserError(req[c]).present
          /\ req[c].kind = "file"
          /\ names' = names + 1
          /\ disk' = [disk EXCEPT ![names + 1] =
                        [exists |-> TRUE, size |-> req[c].file.size]]
          /\ reqFile' = [reqFile EXCEPT ![c] =
                           StoredFile(req[c].file.size, names + 1)]
          /\ UNCHANGED <<err, faults, failed>>
       \/ /\ ~ParserError(req[c]).present
          /\ req[c].kind = "file"
          /\ MayFail
          /\ Fail(c, "storage")
          /\ err' = [err EXCEPT ![c] =
                       PlainError("ENOSPC: no space left on device")]
          /\ UNCHANGED <<disk, names, reqFile>>
    /\ UNCHANGED <<cumulativeSizeFile, op, req, filePath, stats, delta,
                   currentSize, newSize, res, nextCalls, outcome, ops,
                   totalBefore, wrote>>
    /\ History

\* The callback that goes on to the ledger and to next() after an error too.
UploadCallbackNoReturn(c) ==
    /\ pc[c] = "callback"
    /\ IF err[c].present
       THEN /\ res' = [res EXCEPT ![c] = Append(@, ErrorResponse(err[c]))]
            /\ nextCalls' = [nextCalls EXCEPT ![c] = @ + 1]
            /\ Settle(c, Returned)
            /\ UNCHANGED delta
       ELSE IF reqFile[c].present /\ reqFile[c].size # 0
       THEN /\ delta' = [delta EXCEPT ![c] = reqFile[c].size]
            /\ pc' = [pc EXCEPT ![c] = "getCumulativeSize"]
            /\ UNCHANGED <<res, nextCalls, outcome>>
       ELSE /\ nextCalls' = [nextCalls EXCEPT ![c] = @ + 1]
            /\ Settle(c, Returned)
            /\ UNCHANGED <<res, delta>>
    /\ UNCHANGED <<cumulativeSizeFile, disk, names, op, req, err, reqFile, filePath,
                   stats, currentSize, newSize, ops, faults, totalBefore,
                   failed, wrote>>
    /\ History

\* The callback with the await of line 105 left out: updateCumulativeSize
\* is started and next() is called at once.
UploadCallbackNoAwait(c) ==
    /\ pc[c] = "callback"
    /\ IF err[c].present
       THEN /\ res' = [res EXCEPT ![c] = Append(@, ErrorResponse(err[c]))]
            /\ Settle(c, Returned)
            /\ UNCHANGED <<delta, nextCalls>>
       ELSE IF reqFile[c].present /\ reqFile[c].size # 0
       THEN /\ delta' = [delta EXCEPT ![c] = reqFile[c].size]
            /\ nextCalls' = [nextCalls EXCEPT ![c] = @ + 1]
            /\ pc' = [pc EXCEPT ![c] = "getCumulativeSize"]
            /\ UNCHANGED <<res, outcome>>
       ELSE /\ nextCalls' = [nextCalls EXCEPT ![c] = @ + 1]
            /\ Settle(c, Returned)
            /\ UNCHANGED <<res, delta>>
    /\ UNCHANGED <<cumulativeSizeFile, disk, names, op, req, err, reqFile, filePath,
                   stats, currentSize, newSize, ops, faults, totalBefore,
                   failed, wrote>>
    /\ History

\* The callback of the earlier handleFileUpload (lines 188-221): next() is
\* called after a successful upload with no ledger update.
UploadCallbackSkipsLedger(c) ==
    /\ pc[c] = "callback"
    /\ IF err[c].present
       THEN /\ res' = [res EXCEPT ![c] = Append(@, ErrorResponse(err[c]))]
            /\ Settle(c, Returned)
            /\ UNCHANGED <<delta, nextCalls>>
       ELSE /\ nextCalls' = [nextCalls EXCEPT ![c] = @ + 1]
            /\ Settle(c, Returned)
            /\ UNCHANGED <<res, delta>>
    /\ UNCHANGED <<cumulativeSizeFile, disk, names, op, req, err, reqFile, filePath,
                   stats, currentSize, newSize, ops, faults, totalBefore,
                   failed, wrote>>
    /\ History

\* Lines 75-108 up to the await: an error is answered and the callback
\* returns; a stored file of non-zero size starts updateCumulativeSize;
\* otherwise next() is called at once.
UploadCallback(c) ==
    /\ pc[c] = "callback"
    /\ IF err[c].present
       THEN /\ res' = [res EXCEPT ![c] = Append(@, ErrorResponse(err[c]))]
            /\ Settle(c, Returned)
            /\ UNCHANGED <<delta, nextCalls>>
       ELSE IF reqFile[c].present /\ reqFile[c].size # 0
       THEN /\ delta' = [delta EXCEPT ![c] = reqFile[c].size]
            /\ pc' = [pc EXCEPT ![c] = "getCumulativeSize"]
            /\ UNCHANGED <<res, nextCalls, outcome>>
       ELSE /\ nextCalls' = [nextCalls EXCEPT ![c] = @ + 1]
            /\ Settle(c, Returned)
            /\ UNCHANGED <<res, delta>>
    /\ UNCHANGED <<cumulativeSizeFile, disk, names, op, req, err, reqFile, filePath,
                   stats, currentSize, newSize, ops, faults, totalBefore,
                   failed, wrote>>
    /\ History

\* Line 108, after the await of line 105: next().
UploadNext(c) ==
    /\ pc[c] = "next"
    /\ nextCalls' = [nextCalls EXCEPT ![c] = @ + 1]
    /\ Settle(c, Returned)
    /\ UNCHANGED <<cumulativeSizeFile, disk, names, op, req, err, reqFile, filePath,
                   stats, delta, currentSize, newSize, res, ops, faults,
                   totalBefore, failed, wrote>>
    /\ History

\* ----------------------------------------------------- updateCumulativeSize
\* Lines 21-22: the awaited getCumulativeSize() reads the file as it is at
\* that moment (0 when the read or the parse fails), and newSize follows.
GetCumulativeSize(c) ==
    /\ pc[c] = "getCumulativeSize"
    /\ \/ /\ currentSize' = [currentSize EXCEPT ![c] =
                               GetCumulativeSizeOf(cumulativeSizeFile, FALSE)]
          /\ UNCHANGED <<faults, failed>>
       \/ /\ MayFail
          /\ Fail(c, "read")
          /\ currentSize' = [currentSize EXCEPT ![c] =
                               GetCumulativeSizeOf(cumulativeSizeFile, TRUE)]
    /\ newSize' = [newSize EXCEPT ![c] = NewSize(currentSize'[c], delta[c])]
    /\ pc' = [pc EXCEPT ![c] = "writeFileOpen"]
    /\ UNCHANGED <<cumulativeSizeFile, disk, names, op, req, err, reqFile, filePath,
                   stats, delta, res, nextCalls, outcome, ops, totalBefore,
                   wrote>>
    /\ History

\* updateCumulativeSize rejects (its writeFile failed).  In the upload
\* callback nothing catches it (line 105): the callback's promise rejects
\* with no response sent and next() not called.  deleteReportFile catches
\* it and returns false (lines 119-121).
UpdateRejects(c) ==
    CASE op[c] = "delete" -> Settle(c, ReturnedFlag(FALSE))
      [] OTHER -> Settle(c, Rejected)

\* updateCumulativeSize returns newSize (line 24) to its caller: the upload
\* callback goes on to line 108, deleteReportFile returns true (line 118).
UpdateReturns(c) ==
    CASE op[c] = "upload" ->
            /\ pc' = [pc EXCEPT ![c] = "next"]
            /\ UNCHANGED outcome
      [] op[c] = "delete" -> Settle(c, ReturnedFlag(TRUE))
      [] OTHER -> Settle(c, ReturnedNumber(newSize[c]))

\* Line 23, first half: fs.writeFile opens the file, truncating it.
WriteFileOpen(c) ==
    /\ pc[c] = "writeFileOpen"
    /\ \/ /\ cumulativeSizeFile' = OpenForWrite(cumulativeSizeFile)
          /\ wrote' = [wrote EXCEPT ![c] = TRUE]
          /\ pc' = [pc EXCEPT ![c] = "writeFileData"]
          /\ UNCHANGED <<faults, failed, outcome>>
       \/ /\ MayFail
          /\ Fail(c, "write")
          /\ UpdateRejects(c)
          /\ UNCHANGED <<cumulativeSizeFile, wrote>>
    /\ UNCHANGED <<disk, names, op, req, err, reqFile, filePath, stats, delta,
                   currentSize, newSize, res, nextCalls, ops, totalBefore>>
    /\ History

\* Line 23, second half: the text is written at the start of the file, and
\* line 24 returns.
WriteFileData(c) ==
    /\ pc[c] = "writeFileData"
    /\ \/ /\ cumulativeSizeFile' =
                WriteAtStart(cumulativeSizeFile, JSONStringify(newSize[c]))
          /\ UpdateReturns(c)
          /\ UNCHANGED <<faults, failed>>
       \/ /\ MayFail
          /\ Fail(c, "write")
          /\ UpdateRejects(c)
          /\ UNCHANGED cumulativeSizeFile
    /\ UNCHANGED <<disk, names, op, req, err, reqFile, filePath, stats, delta,
                   currentSize, newSize, res, nextCalls, ops, totalBefore,
                   wrote>>
    /\ History

\* A call of updateCumulativeSize(d) on its own.
UpdateCumulativeSize(c, d) ==
    /\ Begin(c, "update", NoRequest, 0, d, "getCumulativeSize")
    /\ History

\* ------------------------------------------------------------------ delete
\* Line 113: deleteReportFile(path) is called.
DeleteReportFile(c, path) ==
    /\ Begin(c, "delete", NoRequest, path, 0, "stat")
    /\ History

\* Line 115: fs.stat(filePath); a missing file or a failing stat lands in
\* the catch (lines 119-121), which returns false.
Stat(c) ==
    /\ pc[c] = "stat"
    /\ \/ /\ disk[filePath[c]].exists
          /\ stats' = [stats EXCEPT ![c] = disk[filePath[c]].size]
          /\ pc' = [pc EXCEPT ![c] = "unlink"]
          /\ UNCHANGED <<faults, failed, outcome>>
       \/ /\ ~disk[filePath[c]].exists
          /\ failed' = [failed EXCEPT ![c] = @ \cup {"stat"}]
          /\ Settle(c, ReturnedFlag(FALSE))
          /\ UNCHANGED <<stats, faults>>
       \/ /\ disk[filePath[c]].exists
          /\ MayFail
          /\ Fail(c, "stat")
          /\ Settle(c, ReturnedFlag(FALSE))
          /\ UNCHANGED stats
    /\ UNCHANGED <<cumulativeSizeFile, disk, names, op, req, err, reqFile, filePath,
                   delta, currentSize, newSize, res, nextCalls, ops,
                   totalBefore, wrote>>
    /\ History

\* unlink whose failure is ignored: the ledger is adjusted all the same.
UnlinkIgnoringFailure(c) ==
    /\ pc[c] = "unlink"
    /\ \/ /\ disk[filePath[c]].exists
          /\ disk' = [disk EXCEPT ![filePath[c]] = NoEntry]
          /\ UNCHANGED <<faults, failed>>
       \/ /\ ~disk[filePath[c]].exists
          /\ failed' = [failed EXCEPT ![c] = @ \cup {"unlink"}]
          /\ UNCHANGED <<disk, faults>>
       \/ /\ disk[filePath[c]].exists
          /\ MayFail
          /\ Fail(c, "unlink")
          /\ UNCHANGED disk
    /\ delta' = [delta EXCEPT ![c] = 0 - stats[c]]
    /\ pc' = [pc EXCEPT ![c] = "getCumulativeSize"]
    /\ UNCHANGED <<cumulativeSizeFile, names, op, req, err, reqFile, filePath, stats,
                   currentSize, newSize, res, nextCalls, outcome, ops,
                   totalBefore, wrote>>
    /\ History

\* Lines 116-117: fs.unlink(filePath), then updateCumulativeSize(-stats.size)
\* is called; a file removed in the meantime or a failing unlink lands in
\* the catch, which returns false.
Unlink(c) ==
    /\ pc[c] = "unlink"
    /\ \/ /\ disk[filePath[c]].exists
          /\ disk' = [disk EXCEPT ![filePath[c]] = NoEntry]
          /\ delta' = [delta EXCEPT ![c] = 0 - stats[c]]
          /\ pc' = [pc EXCEPT ![c] = "getCumulativeSize"]
          /\ UNCHANGED <<faults, failed, outcome>>
       \/ /\ ~disk[filePath[c]].exists
          /\ failed' = [failed EXCEPT ![c] = @ \cup {"unlink"}]
          /\ Settle(c, ReturnedFlag(FALSE))
          /\ UNCHANGED <<disk, delta, faults>>
       \/ /\ disk[filePath[c]].exists
          /\ MayFail
          /\ Fail(c, "unlink")
          /\ Settle(c, ReturnedFlag(FALSE))
          /\ UNCHANGED <<disk, delta>>
    /\ UNCHANGED <<cumulativeSizeFile, names, op, req, err, reqFile, filePath, stats,
                   currentSize, newSize, res, nextCalls, ops, totalBefore,
                   wrote>>
    /\ History

\* ----------------------------------------------------------------- the rest
\* Calls of every kind, interleaved at their awaits.
Next ==
    \E c \in Calls :
        \/ \E r \in Requests : HandleFileUpload(c, r)
        \/ SingleUpload(c)
        \/ UploadCallback(c)
        \/ UploadNext(c)
        \/ \E d \in Deltas : UpdateCumulativeSize(c, d)
        \/ GetCumulativeSize(c)
        \/ WriteFileOpen(c)
        \/ WriteFileData(c)
        \/ \E path \in Paths : DeleteReportFile(c, path)
        \/ Stat(c)
        \/ Unlink(c)

Spec == Init /\ [][Next]_vars

\* Uploads alone, one at a time, over every request.
NextUpload ==
    \/ \E r \in AllRequests : HandleFileUpload(1, r)
    \/ SingleUpload(1)
    \/ UploadCallback(1)
    \/ GetCumulativeSize(1)
    \/ WriteFileOpen(1)
    \/ WriteFileData(1)
    \/ UploadNext(1)

SpecUpload == Init /\ [][NextUpload]_vars

\* No other call is running: call c is made when the others have settled.
Alone(c) == \A d \in Calls \ {c} : pc[d] \in {"idle", "done"}

\* updateCumulativeSize(d) called once every earlier call has settled.
UpdateCumulativeSizeAlone(c, d) == Alone(c) /\ UpdateCumulativeSize(c, d)

\* updateCumulativeSize called one call at a time.
NextLedger ==
    \E c \in Calls :
        \/ \E d \in LedgerDeltas : UpdateCumulativeSizeAlone(c, d)
        \/ GetCumulativeSize(c)
        \/ WriteFileOpen(c)
        \/ WriteFileData(c)

SpecLedger == Init /\ [][NextLedger]_vars

\* handleFileUpload and deleteReportFile called once every earlier call
\* has settled.
HandleFileUploadAlone(c, r) == Alone(c) /\ HandleFileUpload(c, r)

DeleteReportFileAlone(c, path) == Alone(c) /\ DeleteReportFile(c, path)

\* The bytes of the files in the upload directory.
RECURSIVE DiskTotalUpTo(_)
DiskTotalUpTo(p) ==
    IF p = 0 THEN 0
    ELSE DiskTotalUpTo(p - 1) + (IF disk[p].exists THEN disk[p].size ELSE 0)

DiskTotal == DiskTotalUpTo(NumPaths)

\* An empty upload directory and no ledger file.
InitEmpty ==
    /\ cumulativeSizeFile = NoFile
    /\ disk = EmptyDisk
    /\ names = 0
    /\ InitCalls

\* Uploads and deletions, one call at a time.
NextSequential ==
    \E c \in Calls :
        \/ \E r \in Requests : HandleFileUploadAlone(c, r)
        \/ SingleUpload(c)
        \/ UploadCallback(c)
        \/ UploadNext(c)
        \/ GetCumulativeSize(c)
        \/ WriteFileOpen(c)
        \/ WriteFileData(c)
        \/ \E path \in Paths : DeleteReportFileAlone(c, path)
        \/ Stat(c)
        \/ Unlink(c)

SpecSequential == InitEmpty /\ [][NextSequential]_vars

\* Deletions alone, interleaved at their awaits.
NextDelete ==
    \E c \in Calls :
        \/ \E path \in Paths : DeleteReportFile(c, path)
        \/ Stat(c)
        \/ Unlink(c)
        \/ GetCumulativeSize(c)
        \/ WriteFileOpen(c)
        \/ WriteFileData(c)

SpecDelete == Init /\ [][NextDelete]_vars

\* The ledger file is whatever the process finds at its start.
InitRead ==
    /\ cumulativeSizeFile \in LedgerFiles
    /\ disk = EmptyDisk
    /\ names = 0
    /\ InitCalls

SpecRead == InitRead /\ [][NextLedger]_vars

\* ================================================================== claims

\* ---------------------------------------------------------------------- C1
\* C1: from an absent ledger or one holding a non-negative total, whatever
\* updates run and however they interleave, a totalSize the ledger file
\* holds is >= 0, the total read from it is >= 0, and every value
\* updateCumulativeSize computes and returns is >= 0.
C1_LedgerNeverNegative ==
    /\ LedgerTotal >= 0
    /\ cumulativeSizeFile.exists /\ ~JSONParse(cumulativeSizeFile.data).throws
          => JSONParse(cumulativeSizeFile.data).totalSize >= 0
    /\ \A c \in Calls :
          /\ newSize[c] >= 0
          /\ outcome[c].kind = "returned" => outcome[c].value >= 0

\* A call updateCumulativeSize(d) with d < 0 below -currentSize has
\* returned 0 and the file holds {"totalSize":0}.
C1_Witness ==
    \E c \in Calls :
        /\ op[c] = "update"
        /\ pc[c] = "done"
        /\ currentSize[c] + delta[c] < 0
        /\ outcome[c] = ReturnedNumber(0)
        /\ cumulativeSizeFile = FileWith(JSONStringify(0))

\* ---------------------------------------------------------------------- C2
\* The upload of call c was accepted by the parser: a file was stored and
\* the callback got no error.
Accepted(c) ==
    /\ op[c] = "upload"
    /\ pc[c] \notin {"idle", "singleUpload"}
    /\ ~err[c].present
    /\ reqFile[c].present

\* C2: an accepted upload of size s (s <= 20 MiB, s = 0 included) during
\* which no other ledger update runs ends with next() called exactly once,
\* no response sent, and the ledger total grown by exactly s.
C2_AcceptedUploadCounted ==
    \A c \in Calls :
        Accepted(c) /\ pc[c] = "done" /\ ~overlapped[c]
            => /\ nextCalls[c] = 1
               /\ res[c] = <<>>
               /\ totalAfter[c] = totalBefore[c] + reqFile[c].size

\* ---------------------------------------------------------------------- C3
\* Calls c and d are the only calls so far, both uploads of positive size
\* that went through with no failure, and both read the same total.
BothReadSameTotal(c, d) ==
    /\ c # d
    /\ \A e \in Calls \ {c, d} : pc[e] = "idle"
    /\ ops = 2
    /\ \A x \in {c, d} :
          /\ Accepted(x) /\ pc[x] = "done" /\ nextCalls[x] = 1
          /\ reqFile[x].size > 0
          /\ failed[x] = {}
    /\ currentSize[c] = currentSize[d]

\* C3: two uploads of positive sizes s1, s2 that both read the same total T
\* lose an update: each writes T plus its own size, and the ledger ends at
\* T + s1 or T + s2 (or as the unreadable overlap of the two texts), never
\* at T + s1 + s2.
C3_LostUpdate ==
    \A c, d \in Calls :
        BothReadSameTotal(c, d)
            => LET T == currentSize[c]
                   s1 == reqFile[c].size
                   s2 == reqFile[d].size
               IN  /\ newSize[c] = T + s1
                   /\ newSize[d] = T + s2
                   /\ LedgerTotal # T + s1 + s2
                   /\ \/ cumulativeSizeFile = FileWith(JSONStringify(T + s1))
                      \/ cumulativeSizeFile = FileWith(JSONStringify(T + s2))
                      \/ JSONParse(cumulativeSizeFile.data).throws

\* Both uploads are done, both read T = 7, and the file holds T + s1.
C3_Witness ==
    \E c, d \in Calls :
        /\ BothReadSameTotal(c, d)
        /\ currentSize[c] = 7
        /\ cumulativeSizeFile = FileWith(JSONStringify(7 + reqFile[c].size))
        /\ LedgerTotal < 7 + reqFile[c].size + reqFile[d].size

\* ---------------------------------------------------------------------- C4
\* C4: an upload that has ended has sent exactly one error response or has
\* called next() exactly once, never both and never neither.
C4_ResponseOrNext ==
    \A c \in Calls :
        op[c] = "upload" /\ pc[c] = "done"
            => \/ Len(res[c]) = 1 /\ nextCalls[c] = 0
               \/ Len(res[c]) = 0 /\ nextCalls[c] = 1

\* ---------------------------------------------------------------------- C5
\* The upload of call c carries a file that fileFilter rejects.
RejectedByFilter(c) ==
    op[c] = "upload" /\ req[c].kind = "file" /\ ~FileFilter(req[c].file)

\* C5: an upload rejected by fileFilter never reaches the ledger update or
\* next(), and ends with the one response 400 {status: false, status_code:
\* 400, message: the fixed invalid-type message}, next() not called and the
\* ledger file as it was.
C5_FilterRejection ==
    \A c \in Calls :
        RejectedByFilter(c)
            => /\ pc[c] \in {"singleUpload", "callback", "done"}
               /\ ~wrote[c]
               /\ nextCalls[c] = 0
               /\ pc[c] = "done"
                    => /\ res[c] =
                            << [status |-> 400,
                                body |-> [status |-> FALSE, status_code |-> 400,
                                          message |-> "Invalid file type. Only PDF files are accepted."]] >>
                       /\ totalAfter[c] = totalBefore[c]

\* A text/plain file named a.pdf was answered.
C5_Witness ==
    \E c \in Calls :
        /\ RejectedByFilter(c)
        /\ req[c].file.mimetype = TextPlain
        /\ req[c].file.originalname = PdfName
        /\ pc[c] = "done"
        /\ Len(res[c]) = 1

\* ---------------------------------------------------------------------- C6
\* C6: an upload whose file is larger than 20 * 1024 * 1024 bytes ends with
\* one response of HTTP status 400 (status_code 400, status false), next()
\* not called, and the ledger never written, so not increased.
C6_OversizeRejected ==
    \A c \in Calls :
        op[c] = "upload" /\ req[c].kind = "file"
            /\ req[c].file.size > 20 * 1024 * 1024
            => /\ ~wrote[c]
               /\ nextCalls[c] = 0
               /\ pc[c] = "done"
                    => /\ Len(res[c]) = 1
                       /\ res[c][1].status = 400
                       /\ res[c][1].body.status_code = 400
                       /\ res[c][1].body.status = FALSE
                       /\ totalAfter[c] <= totalBefore[c]

\* A PDF one byte over the limit was answered with the parser's message.
C6_Witness ==
    \E c \in Calls :
        /\ op[c] = "upload"
        /\ req[c].kind = "file"
        /\ FileFilter(req[c].file)
        /\ req[c].file.size = 20 * 1024 * 1024 + 1
        /\ pc[c] = "done"
        /\ res[c] = <<Response(400, 400, "File too large")>>

\* ---------------------------------------------------------------------- C7
\* C7: a deleteReportFile whose stat, unlink and ledger read and write all
\* went through, with no other ledger update running meanwhile, returns
\* true, leaves no file at the path, and leaves the ledger at
\* max(0, T - s), T the total when it began and s the size stat gave.
C7_DeleteDecrements ==
    \A c \in Calls :
        op[c] = "delete" /\ pc[c] = "done" /\ failed[c] = {} /\ ~overlapped[c]
            => /\ outcome[c] = ReturnedFlag(TRUE)
               /\ removed[c]
               /\ ~presentAfter[c]
               /\ totalAfter[c] =
                    (IF totalBefore[c] - stats[c] > 0
                     THEN totalBefore[c] - stats[c] ELSE 0)

\* A 5-byte file was deleted with the ledger at 7, which left 2.
C7_Witness ==
    \E c \in Calls :
        /\ op[c] = "delete" /\ pc[c] = "done" /\ failed[c] = {}
        /\ ~overlapped[c]
        /\ stats[c] = 5
        /\ totalBefore[c] = 7
        /\ totalAfter[c] = 2

\* ---------------------------------------------------------------------- C8
\* C8: deleteReportFile never rejects; once it has ended it has returned
\* true exactly when stat, unlink and the ledger write all went through,
\* and false otherwise; after a failed stat it has neither removed a file
\* nor opened the ledger, after a failed unlink it has not opened the
\* ledger.
C8_DeleteReturnsBoolean ==
    \A c \in Calls :
        op[c] = "delete"
            => /\ outcome[c].kind # "rejected"
               /\ "stat" \in failed[c] => ~removed[c] /\ ~wrote[c]
               /\ "unlink" \in failed[c] => ~removed[c] /\ ~wrote[c]
               /\ pc[c] = "done"
                    => /\ outcome[c].kind = "returned"
                       /\ outcome[c].flag
                            <=> failed[c] \cap {"stat", "unlink", "write"} = {}
                       /\ outcome[c].flag => removed[c] /\ wrote[c]

\* With no outside failure, one delete returned false after its unlink
\* failed on a file another delete had removed, and that other delete
\* returned true.
C8_Witness ==
    \E c, d \in Calls :
        /\ faults = 0
        /\ op[c] = "delete" /\ pc[c] = "done"
        /\ failed[c] = {"unlink"}
        /\ ~wrote[c]
        /\ outcome[c] = ReturnedFlag(FALSE)
        /\ op[d] = "delete" /\ pc[d] = "done"
        /\ outcome[d] = ReturnedFlag(TRUE)

\* ---------------------------------------------------------------------- C9
\* The response the claim gives for a parser error e.
C9_Table(e) ==
    CASE e.multer /\ e.code = "LIMIT_UNEXPECTED_FILE" ->
            [status |-> 400,
             message |-> "Only a single file can be uploaded for report_pdf."]
      [] e.multer /\ e.code # "LIMIT_UNEXPECTED_FILE" ->
            [status |-> 400, message |-> e.message]
      [] ~e.multer /\ e.message = "Invalid file type. Only PDF files are allowed." ->
            [status |-> 400,
             message |-> "Invalid file type. Only PDF files are accepted."]
      [] OTHER ->
            [status |-> 500, message |-> "An error occurred during file upload."]

\* C9: an upload whose parser gave an error ends with exactly the response
\* of the table; its body's status_code equals the HTTP status and its
\* status is false; and the status is 500 only for an error that is no
\* MulterError and does not carry the filter's message.
C9_ErrorMapping ==
    \A c \in Calls :
        op[c] = "upload" /\ pc[c] = "done" /\ err[c].present
            => /\ Len(res[c]) = 1
               /\ res[c][1].status = C9_Table(err[c]).status
               /\ res[c][1].body.message = C9_Table(err[c]).message
               /\ res[c][1].body.status_code = res[c][1].status
               /\ res[c][1].body.status = FALSE
               /\ res[c][1].status = 500
                    <=> ~err[c].multer /\ err[c].message # InvalidTypeMessage

\* An upload whose storage failed was answered with the generic 500.
C9_Witness ==
    \E c \in Calls :
        /\ op[c] = "upload" /\ pc[c] = "done"
        /\ err[c] = PlainError("ENOSPC: no space left on device")
        /\ res[c] = <<Response(500, 500, "An error occurred during file upload.")>>

\* --------------------------------------------------------------------- C10
\* s holds "pdf" in any mix of cases.
HoldsPdfAnyCase(s) == TestPdf(ToLowerCase(s))

\* C10: fileFilter accepts a file exactly when its MIME type and the
\* extension of its original name both hold "pdf", compared without
\* regard to case.
C10_FilterCaseInsensitive ==
    \A c \in Calls :
        op[c] = "upload" /\ req[c].kind = "file"
            /\ pc[c] \notin {"idle", "singleUpload"}
            => (err[c] # PlainError(InvalidTypeMessage))
                 <=> /\ HoldsPdfAnyCase(req[c].file.mimetype)
                     /\ HoldsPdfAnyCase(Extname(req[c].file.originalname))

\* --------------------------------------------------------------------- C11
\* C11: an updateCumulativeSize(delta) that returned, made with no other
\* call running, computed max(0, r + delta) from the r its
\* getCumulativeSize gave, returned that number, and left the ledger file
\* holding exactly {"totalSize":<that number>} and nothing else; so from a
\* total of 0 (an absent ledger included) adjust(500) leaves
\* {"totalSize":500}, and adjust(-800) on 500 leaves {"totalSize":0}.
C11_AdjustContract ==
    [][\A c \in Calls :
          op[c] = "update" /\ pc[c] # "done" /\ pc'[c] = "done"
              /\ outcome'[c].kind = "returned" /\ Alone(c)
              => /\ newSize[c] = (IF currentSize[c] + delta[c] > 0
                                  THEN currentSize[c] + delta[c] ELSE 0)
                 /\ outcome'[c].value = newSize[c]
                 /\ cumulativeSizeFile' = FileWith(JSONStringify(newSize[c]))
                 /\ GetCumulativeSizeOf(cumulativeSizeFile', FALSE) = newSize[c]
                 /\ failed[c] = {} /\ totalBefore[c] = 0 /\ delta[c] = 500
                       => cumulativeSizeFile'.data =
                            <<"{", "\"", "t", "o", "t", "a", "l", "S", "i", "z",
                              "e", "\"", ":", "5", "0", "0", "}">>
                 /\ failed[c] = {} /\ totalBefore[c] = 500
                       /\ delta[c] = 0 - 800
                       => cumulativeSizeFile'.data =
                            <<"{", "\"", "t", "o", "t", "a", "l", "S", "i", "z",
                              "e", "\"", ":", "0", "}">>]_vars

\* The scenario: the first call, made with the total at 0, was adjust(500)
\* and left 500; the second was adjust(-800), found 500, returned 0 and
\* left {"totalSize":0}.
C11_Witness ==
    \E c, d \in Calls :
        /\ c # d /\ ops = 2 /\ faults = 0
        /\ op[c] = "update" /\ pc[c] = "done"
        /\ delta[c] = 500 /\ totalBefore[c] = 0 /\ totalAfter[c] = 500
        /\ op[d] = "update" /\ pc[d] = "done"
        /\ delta[d] = 0 - 800 /\ currentSize[d] = 500
        /\ outcome[d] = ReturnedNumber(0)
        /\ cumulativeSizeFile.data =
              <<"{", "\"", "t", "o", "t", "a", "l", "S", "i", "z", "e", "\"",
                ":", "0", "}">>

\* --------------------------------------------------------------------- C12
\* C12: the getCumulativeSize a call awaits returns the totalSize the
\* ledger file holds when the file is there, is read and parses with a
\* totalSize, and 0 when the file is missing, the read fails, the text
\* does not parse or holds no totalSize; it returns in every case, and
\* the ledger file is after the read what it was before.
C12_ReadFallback ==
    [][\A c \in Calls :
          pc[c] = "getCumulativeSize" /\ pc'[c] # "getCumulativeSize"
              => LET file == cumulativeSizeFile
                     readable == file.exists /\ "read" \notin failed'[c]
                     parsed == JSONParse(file.data)
                 IN  /\ pc'[c] = "writeFileOpen"
                     /\ outcome'[c] = Pending
                     /\ cumulativeSizeFile' = cumulativeSizeFile
                     /\ currentSize'[c] =
                          (IF readable /\ ~parsed.throws /\ parsed.hasTotalSize
                           THEN parsed.totalSize ELSE 0)
                     /\ readable /\ file.data =
                            <<"{", "\"", "t", "o", "t", "a", "l", "S", "i",
                              "z", "e", "\"", ":", "1", "2", "}">>
                          => currentSize'[c] = 12
                     /\ file.data \in
                            { <<>>, <<"{", "}">>,
                              <<"{", "\"", "t", "o", "t", "a", "l", "S", "i",
                                "z", "e", "\"", ":", "9", "}", "}">> }
                          => currentSize'[c] = 0]_vars

\* The first call has read 0, with no failure of the read, from a file
\* that is there and does not parse, and the file is as it was.
C12_Witness ==
    \E c \in Calls :
        /\ ops = 1 /\ faults = 0
        /\ pc[c] = "writeFileOpen"
        /\ cumulativeSizeFile.exists
        /\ JSONParse(cumulativeSizeFile.data).throws
        /\ currentSize[c] = 0

\* --------------------------------------------------------------------- C13
\* C13: an accepted upload of positive size calls next() only once its
\* own ledger write is over: while it is reading the ledger, opening the
\* file or writing the text, next() has not been called, and once next()
\* has been called the call has opened the ledger file, none of its writes
\* failed, and it has left updateCumulativeSize.
C13_NextAfterLedgerWrite ==
    \A c \in Calls :
        Accepted(c) /\ reqFile[c].size > 0
            => /\ pc[c] \in UpdatePcs \cup {"callback", "next"}
                     => nextCalls[c] = 0
               /\ nextCalls[c] > 0
                     => /\ pc[c] = "done"
                        /\ wrote[c]
                        /\ "write" \notin failed[c]

\* A 5-byte upload has called next(), alone, after writing 5 more than the
\* total it began with.
C13_Witness ==
    \E c \in Calls :
        /\ Accepted(c) /\ reqFile[c].size = 5
        /\ nextCalls[c] = 1
        /\ wrote[c] /\ failed[c] = {} /\ ~overlapped[c]
        /\ totalAfter[c] = totalBefore[c] + 5

\* --------------------------------------------------------------------- C14
\* C14: with uploads and deletions made one at a time from an empty
\* directory and no ledger, and no filesystem call failing for an outside
\* reason, whenever no call is running the total the ledger holds is the
\* sum of the sizes of the files in the upload directory, and no call's
\* clamp took effect: each newSize is currentSize + delta.
C14_LedgerMatchesDisk ==
    faults = 0 /\ (\A c \in Calls : pc[c] \in {"idle", "done"})
        => /\ LedgerTotal = DiskTotal
           /\ cumulativeSizeFile.exists
                 => cumulativeSizeFile = FileWith(JSONStringify(DiskTotal))
           /\ \A c \in Calls :
                 wrote[c] => /\ currentSize[c] + delta[c] >= 0
                             /\ newSize[c] = currentSize[c] + delta[c]

\* A 5-byte file was uploaded, then deleted: the directory is empty again
\* and the ledger holds {"totalSize":0}.
C14_Witness ==
    \E c, d \in Calls :
        /\ faults = 0
        /\ Accepted(c) /\ pc[c] = "done" /\ reqFile[c].size = 5
        /\ totalAfter[c] = 5
        /\ op[d] = "delete" /\ pc[d] = "done"
        /\ filePath[d] = reqFile[c].path
        /\ outcome[d] = ReturnedFlag(TRUE)
        /\ DiskTotal = 0
        /\ cumulativeSizeFile = FileWith(JSONStringify(0))

\* --------------------------------------------------------------------- C15
\* The deleteReportFile calls on path p.
DeletesOf(p) == {c \in Calls : op[c] = "delete" /\ filePath[c] = p}

\* C15: of the deleteReportFile calls on one path, however they
\* interleave, at most one removes the file, at most one goes on to
\* updateCumulativeSize with the file's size, at most one opens the ledger
\* and at most one returns true; and a call goes on to the ledger only
\* after its own unlink removed the file.
C15_SingleDecrement ==
    \A p \in Paths :
        /\ Cardinality({c \in DeletesOf(p) : removed[c]}) <= 1
        /\ Cardinality({c \in DeletesOf(p) : delta[c] # 0}) <= 1
        /\ Cardinality({c \in DeletesOf(p) : wrote[c]}) <= 1
        /\ Cardinality({c \in DeletesOf(p) : outcome[c].flag}) <= 1
        /\ \A c \in DeletesOf(p) :
              pc[c] \in UpdatePcs \/ wrote[c] \/ outcome[c].flag
                  => removed[c]

\* Two deletions of the same 5-byte file both got its size from stat; one
\* removed it, took 5 off the ledger's 7 and returned true, the other
\* failed at its unlink and returned false.
C15_Witness ==
    \E c, d \in Calls :
        /\ c # d /\ faults = 0
        /\ op[c] = "delete" /\ op[d] = "delete"
        /\ filePath[c] = filePath[d]
        /\ stats[c] = 5 /\ stats[d] = 5
        /\ pc[c] = "done" /\ pc[d] = "done"
        /\ outcome[c] = ReturnedFlag(TRUE) /\ removed[c]
        /\ outcome[d] = ReturnedFlag(FALSE) /\ failed[d] = {"unlink"}
        /\ LedgerTotal = 2

====
